---- MODULE Spec2Model ----
(***************************************************************************)
(* Model of app.py: extract_video_id, get_transcript_text, basic_summarizer *)
(* and the /summarize handler summarize_video, run against a transcript    *)
(* backend (youtube_transcript_api) that is treated as the environment.    *)
(*                                                                         *)
(* Python strings are sequences of one-character strings, so that strip,   *)
(* join and the regular expressions are computed character by character.   *)
(***************************************************************************)
EXTENDS Integers, Sequences, FiniteSets, TLC

VARIABLES
    tracks,              \* backend: the caption tracks of the video
    available_languages, \* backend: the language codes it advertises, in order
    raw_url,             \* request.form['video_url'] as submitted
    video_url,           \* summarize_video: the stripped URL
    video_id,            \* summarize_video: extract_video_id(video_url)
    pc,                  \* position of the request in the code
    transcript,          \* get_transcript_text: the selected track or NoTranscript
    lang_codes,          \* get_transcript_text: language codes the for loop has left
    result,              \* what get_transcript_text returned: <<text, error>>
    display,             \* the arguments of the last render_template call
    calls,               \* backend calls made for the current request, in order
    segments             \* what transcript.fetch() returned for the current request

vars == <<tracks, available_languages, raw_url, video_url, video_id, pc,
          transcript, lang_codes, result, display, calls, segments>>

(***************************************************************************)
(* Bounds of the model.                                                    *)
(***************************************************************************)
MaxLangs == 2   \* longest list of advertised languages
MaxSegs == 3    \* most segments a fetched track has
MaxFrags == 4   \* most fragments a generated URL is made of

(***************************************************************************)
(* Python values.                                                          *)
(***************************************************************************)
None == <<"None">>          \* None where a str is expected (no str equals it)
NoError == "None"           \* None where an error message is expected
NoTranscript == [language_code |-> "None", is_generated |-> FALSE]

\* bool(s) of an optional str: None and '' are falsy
Truthy(s) == s # None /\ s # <<>>
\* bool(msg) of an optional error message
TruthyMsg(m) == m # NoError /\ m # ""

Digits == {"0", "1", "2", "3", "4", "5", "6", "7", "8", "9"}
Upper == {"A", "B", "C", "D", "E", "F", "G", "H", "I", "J", "K", "L", "M",
          "N", "O", "P", "Q", "R", "S", "T", "U", "V", "W", "X", "Y", "Z"}
Lower == {"a", "b", "c", "d", "e", "f", "g", "h", "i", "j", "k", "l", "m",
          "n", "o", "p", "q", "r", "s", "t", "u", "v", "w", "x", "y", "z"}
\* the character class [0-9A-Za-z_-]
IdChars == Digits \cup Upper \cup Lower \cup {"_", "-"}
\* the repetition count {11}
IdLen == 11
Whitespace == {" "}

(***************************************************************************)
(* extract_video_id                                                        *)
(***************************************************************************)
\* does the literal lit occur in url at position i
LiteralAt(url, lit, i) ==
    /\ i + Len(lit) - 1 <= Len(url)
    /\ \A k \in 1..Len(lit) : url[i + k - 1] = lit[k]

\* [0-9A-Za-z_-]{11} at position i
ClassRunAt(url, i) ==
    /\ i + IdLen - 1 <= Len(url)
    /\ \A k \in i..(i + IdLen - 1) : url[k] \in IdChars

\* (?:a|b|...)([0-9A-Za-z_-]{11}) anchored at i: the alternatives are tried in
\* order; group(1) or None
RECURSIVE MatchAt(_, _, _)
MatchAt(alts, url, i) ==
    IF alts = <<>> THEN None
    ELSE IF LiteralAt(url, Head(alts), i) /\ ClassRunAt(url, i + Len(Head(alts)))
         THEN SubSeq(url, i + Len(Head(alts)), i + Len(Head(alts)) + IdLen - 1)
         ELSE MatchAt(Tail(alts), url, i)

\* re.search: the match at the leftmost position that has one
RECURSIVE SearchFrom(_, _, _)
SearchFrom(alts, url, i) ==
    IF i > Len(url) + 1 THEN None
    ELSE LET m == MatchAt(alts, url, i) IN
         IF m # None THEN m ELSE SearchFrom(alts, url, i + 1)

\* r'(?:v=|\/)([0-9A-Za-z_-]{11}).*'  (the trailing .* always matches)
Pattern1 == << <<"v", "=">>, <<"/">> >>
\* r'(?:embed\/|v\/|youtu\.be\/)([0-9A-Za-z_-]{11})'
Pattern2 == << <<"e", "m", "b", "e", "d", "/">>, <<"v", "/">>,
               <<"y", "o", "u", "t", "u", ".", "b", "e", "/">> >>
patterns == <<Pattern1, Pattern2>>

RECURSIVE FirstPatternMatch(_, _)
FirstPatternMatch(ps, url) ==
    IF ps = <<>> THEN None
    ELSE LET match == SearchFrom(Head(ps), url, 1) IN
         IF match # None THEN match ELSE FirstPatternMatch(Tail(ps), url)

extract_video_id(url) ==
    IF url = <<>> THEN None ELSE FirstPatternMatch(patterns, url)

(***************************************************************************)
(* str.strip()                                                             *)
(***************************************************************************)
RECURSIVE LStrip(_)
LStrip(s) == IF s # <<>> /\ Head(s) \in Whitespace THEN LStrip(Tail(s)) ELSE s

RECURSIVE RStrip(_)
RStrip(s) ==
    IF s # <<>> /\ s[Len(s)] \in Whitespace THEN RStrip(SubSeq(s, 1, Len(s) - 1)) ELSE s

strip(s) == RStrip(LStrip(s))

(***************************************************************************)
(* " ".join([segment.text for segment in fetched_transcript_segments])     *)
(***************************************************************************)
\* Join with the separator forgotten
RECURSIVE JoinNoSeparator(_)
JoinNoSeparator(segs) ==
    IF segs = <<>> THEN <<>> ELSE segs[1] \o JoinNoSeparator(Tail(segs))

RECURSIVE Join(_)
Join(segs) ==
    IF segs = <<>> THEN <<>>
    ELSE IF Len(segs) = 1 THEN segs[1]
         ELSE segs[1] \o <<" ">> \o Join(Tail(segs))

(***************************************************************************)
(* basic_summarizer                                                        *)
(***************************************************************************)
\* basic_summarizer as a stub that returns no summary
basic_summarizer_Stub(text) == <<>>

basic_summarizer(text) == IF ~Truthy(text) THEN <<>> ELSE text

(***************************************************************************)
(* The messages of the program.                                            *)
(***************************************************************************)
MsgEmptyUrl == "Please enter a YouTube video URL."
MsgInvalidUrl == "Invalid YouTube URL or could not extract Video ID. Please use a valid format (e.g., https://www.youtube.com/watch?v=VIDEO_ID or https://youtu.be/VIDEO_ID)."
MsgNoTranscripts == "No transcripts found for this video in any language."
MsgDisabled == "Transcripts are disabled for this video."
MsgNotFound == "No transcript found for this video."
MsgUnexpected == "An unexpected error occurred: e"
MsgNoSummary == "Could not generate summary from the transcript."
MsgNoText == "Could not retrieve transcript for the video (no text content)."

(***************************************************************************)
(* The backend: tracks per language, manually created or generated; the    *)
(* languages it advertises; the segment texts a fetch can return; and the  *)
(* exceptions a call can raise.                                            *)
(***************************************************************************)
Langs == {"en", "es", "fr"}
Tracks == [language_code : Langs, is_generated : BOOLEAN]

RECURSIVE SeqsUpTo(_, _)
SeqsUpTo(S, n) ==
    IF n = 0 THEN {<<>>}
    ELSE SeqsUpTo(S, n - 1) \cup
         {Append(q, x) : q \in {r \in SeqsUpTo(S, n - 1) : Len(r) = n - 1}, x \in S}

Never == <<"N", "e", "v", "e", "r">>
gonna == <<"g", "o", "n", "n", "a">>
SegTexts == {<<>>, Never, gonna}
SegLists == SeqsUpTo(SegTexts, MaxSegs)

Faults == {"TranscriptsDisabled", "NoTranscriptFound", "Exception"}

(***************************************************************************)
(* get_transcript_text                                                     *)
(***************************************************************************)
\* the first query asking for the generated English track
ManualEnglish_Generated == [language_code |-> "en", is_generated |-> TRUE]

\* the track find_manually_created_transcript(['en']) asks for
ManualEnglish == [language_code |-> "en", is_generated |-> FALSE]
\* the track find_generated_transcript([code]) asks for
Generated(code) == [language_code |-> code, is_generated |-> TRUE]

RECURSIVE Reverse(_)
Reverse(q) == IF q = <<>> THEN <<>> ELSE Append(Reverse(Tail(q)), Head(q))

\* the language codes walked last to first
LanguageCodes_Reversed(available_langs) == Reverse(available_langs)

\* [lang['language_code'] for lang in available_langs]
LanguageCodes(available_langs) == available_langs

\* the except clauses around the find_* calls: only NoTranscriptFound
InnerCatches(exc) == exc = "NoTranscriptFound"

\* the outer try without its final `except Exception`
get_transcript_text_except_NoCatchAll(exc) ==
    IF exc = "TranscriptsDisabled"
    THEN [escapes |-> FALSE, text |-> None, error |-> MsgDisabled]
    ELSE IF exc = "NoTranscriptFound"
    THEN [escapes |-> FALSE, text |-> None, error |-> MsgNotFound]
    ELSE [escapes |-> TRUE, text |-> None, error |-> NoError]

\* the except clauses of the outer try
get_transcript_text_except(exc) ==
    IF exc = "TranscriptsDisabled"
    THEN [escapes |-> FALSE, text |-> None, error |-> MsgDisabled]
    ELSE IF exc = "NoTranscriptFound"
    THEN [escapes |-> FALSE, text |-> None, error |-> MsgNotFound]
    ELSE [escapes |-> FALSE, text |-> None, error |-> MsgUnexpected]

\* `not transcript` tested on a name that is never bound
NotTranscript_Always(t) == TRUE

\* `not transcript`
NotTranscript(t) == t = NoTranscript

Call(op, code, gen) == [op |-> op, language_code |-> code, is_generated |-> gen]

\* return text, error
Return(text, error) ==
    /\ pc' = "fetched"
    /\ result' = <<text, error>>

\* an exception raised inside the outer try
Raise(exc) ==
    LET r == get_transcript_text_except(exc) IN
    IF r.escapes
    THEN pc' = "crashed" /\ UNCHANGED result
    ELSE Return(r.text, r.error)

\* line 53, reached with the selection t, then the fetch or the early return
AfterSelection(t) ==
    IF NotTranscript(t)
    THEN Return(None, MsgNoTranscripts)
    ELSE pc' = "fetch" /\ UNCHANGED result

ListTranscripts ==
    /\ pc = "list"
    /\ calls' = Append(calls, Call("list_transcripts", "-", FALSE))
    /\ \E outcome \in {"ok"} \cup Faults :
          IF outcome = "ok"
          THEN pc' = "find_manual" /\ UNCHANGED result
          ELSE Raise(outcome)
    /\ UNCHANGED <<tracks, available_languages, raw_url, video_url, video_id,
                   transcript, lang_codes, display, segments>>

FindManualEnglish ==
    /\ pc = "find_manual"
    /\ calls' = Append(calls, Call("find_manually_created_transcript", "en", FALSE))
    /\ \E outcome \in {IF ManualEnglish \in tracks THEN "ok" ELSE "NoTranscriptFound",
                       "TranscriptsDisabled", "Exception"} :
          IF outcome = "ok"
          THEN transcript' = ManualEnglish /\ pc' = "fetch" /\ UNCHANGED result
          ELSE IF InnerCatches(outcome)
          THEN pc' = "find_generated" /\ UNCHANGED <<transcript, result>>
          ELSE Raise(outcome) /\ UNCHANGED transcript
    /\ UNCHANGED <<tracks, available_languages, raw_url, video_url, video_id,
                   lang_codes, display, segments>>

FindGeneratedEnglish ==
    /\ pc = "find_generated"
    /\ calls' = Append(calls, Call("find_generated_transcript", "en", TRUE))
    /\ \E outcome \in {IF Generated("en") \in tracks THEN "ok" ELSE "NoTranscriptFound",
                       "TranscriptsDisabled", "Exception"} :
          IF outcome = "ok"
          THEN transcript' = Generated("en") /\ pc' = "fetch" /\ UNCHANGED result
          ELSE IF InnerCatches(outcome)
          THEN pc' = "languages" /\ UNCHANGED <<transcript, result>>
          ELSE Raise(outcome) /\ UNCHANGED transcript
    /\ UNCHANGED <<tracks, available_languages, raw_url, video_url, video_id,
                   lang_codes, display, segments>>

AvailableLanguages ==
    /\ pc = "languages"
    /\ calls' = Append(calls, Call("available_languages", "-", FALSE))
    /\ \E outcome \in {"ok"} \cup Faults :
          IF outcome = "ok"
          THEN /\ lang_codes' = LanguageCodes(available_languages)
               /\ IF lang_codes' = <<>>
                  THEN AfterSelection(transcript)
                  ELSE pc' = "loop" /\ UNCHANGED result
          ELSE Raise(outcome) /\ UNCHANGED lang_codes
    /\ UNCHANGED <<tracks, available_languages, raw_url, video_url, video_id,
                   transcript, display, segments>>

TryLanguage ==
    /\ pc = "loop"
    /\ lang_codes # <<>>
    /\ calls' = Append(calls, Call("find_generated_transcript", Head(lang_codes), TRUE))
    /\ \E outcome \in {IF Generated(Head(lang_codes)) \in tracks
                       THEN "ok" ELSE "NoTranscriptFound",
                       "TranscriptsDisabled", "Exception"} :
          IF outcome = "ok"
          THEN /\ transcript' = Generated(Head(lang_codes))
               /\ UNCHANGED lang_codes
               /\ AfterSelection(transcript')
          ELSE IF InnerCatches(outcome)
          THEN /\ lang_codes' = Tail(lang_codes)
               /\ UNCHANGED transcript
               /\ IF lang_codes' = <<>>
                  THEN AfterSelection(transcript)
                  ELSE pc' = "loop" /\ UNCHANGED result
          ELSE Raise(outcome) /\ UNCHANGED <<transcript, lang_codes>>
    /\ UNCHANGED <<tracks, available_languages, raw_url, video_url, video_id,
                   display, segments>>

Fetch ==
    /\ pc = "fetch"
    /\ calls' = Append(calls, Call("fetch", transcript.language_code,
                                   transcript.is_generated))
    /\ IF transcript = NoTranscript
       THEN Raise("Exception") /\ UNCHANGED segments
       ELSE \/ \E segs \in SegLists :
                  /\ segments' = segs
                  /\ Return(Join(segs), NoError)
            \/ \E exc \in Faults :
                  Raise(exc) /\ UNCHANGED segments
    /\ UNCHANGED <<tracks, available_languages, raw_url, video_url, video_id,
                   transcript, lang_codes, display>>

(***************************************************************************)
(* summarize_video                                                         *)
(***************************************************************************)
\* the two tests in the other order
RouteRequest_IdFirst(url, id) ==
    IF ~Truthy(id) THEN "invalid"
    ELSE IF url = <<>> THEN "empty"
    ELSE "fetch"

\* the if / elif / else on video_url and video_id
RouteRequest(url, id) ==
    IF url = <<>> THEN "empty"
    ELSE IF ~Truthy(id) THEN "invalid"
    ELSE "fetch"

\* the branches without the final elif
HandleFetched_NoFinalElif(text, error) ==
    IF TruthyMsg(error)
    THEN [summary_text |-> None, error_msg |-> error]
    ELSE IF Truthy(text)
    THEN [summary_text |-> basic_summarizer(text),
          error_msg |-> IF ~Truthy(basic_summarizer(text)) THEN MsgNoSummary
                        ELSE NoError]
    ELSE [summary_text |-> None, error_msg |-> NoError]

\* the final elif with the message of the branch above it
HandleFetched_OtherMessage(text, error) ==
    IF TruthyMsg(error)
    THEN [summary_text |-> None, error_msg |-> error]
    ELSE IF Truthy(text)
    THEN [summary_text |-> basic_summarizer(text),
          error_msg |-> IF ~Truthy(basic_summarizer(text)) THEN MsgNoSummary
                        ELSE NoError]
    ELSE [summary_text |-> None, error_msg |-> MsgNoSummary]

\* the branches on what get_transcript_text returned: summary_text and error_msg
HandleFetched(text, error) ==
    IF TruthyMsg(error)
    THEN [summary_text |-> None, error_msg |-> error]
    ELSE IF Truthy(text)
    THEN [summary_text |-> basic_summarizer(text),
          error_msg |-> IF ~Truthy(basic_summarizer(text)) THEN MsgNoSummary
                        ELSE NoError]
    ELSE [summary_text |-> None, error_msg |-> MsgNoText]

\* the keyword arguments of render_template
render(summary_text, error_msg, url, fetched_text_content) ==
    [summary |-> summary_text,
     error_message |-> error_msg,
     video_url_input |-> url,
     full_transcript |-> IF TruthyMsg(error_msg) /\ Truthy(fetched_text_content)
                         THEN fetched_text_content ELSE None]

NothingRendered == render(None, NoError, <<>>, None)

UrlWatch == <<"h", "t", "t", "p", "s", ":", "/", "/", "w", "w", "w", ".", "y", "o", "u", "t", "u", "b", "e", ".", "c", "o", "m", "/", "w", "a", "t", "c", "h", "?", "v", "=", "d", "Q", "w", "4", "w", "9", "W", "g", "X", "c", "Q">>
UrlShortPadded == <<" ", " ", "y", "o", "u", "t", "u", ".", "b", "e", "/", "d", "Q", "w", "4", "w", "9", "W", "g", "X", "c", "Q", " ">>
UrlNotAUrl == <<"n", "o", "t", " ", "a", " ", "u", "r", "l">>
\* the URLs a user submits in this model
FormUrls == {<<>>, <<" ", " ">>, UrlNotAUrl, UrlWatch, UrlShortPadded}

\* GET /: the empty form; the request before it is over
index ==
    /\ pc \in {"idle", "rendered", "crashed"}
    /\ pc' = "idle"
    /\ display' = NothingRendered
    /\ raw_url' = <<>>
    /\ video_url' = <<>>
    /\ video_id' = None
    /\ transcript' = NoTranscript
    /\ lang_codes' = <<>>
    /\ result' = <<None, NoError>>
    /\ calls' = <<>>
    /\ segments' = <<>>
    /\ UNCHANGED <<tracks, available_languages>>

\* POST /summarize up to the call of get_transcript_text
Submit(u) ==
    /\ pc = "idle"
    /\ raw_url' = u
    /\ video_url' = strip(u)
    /\ video_id' = extract_video_id(video_url')
    /\ transcript' = NoTranscript
    /\ lang_codes' = <<>>
    /\ result' = <<None, NoError>>
    /\ calls' = <<>>
    /\ segments' = <<>>
    /\ IF RouteRequest(video_url', video_id') = "empty"
       THEN pc' = "rendered" /\ display' = render(None, MsgEmptyUrl, video_url', None)
       ELSE IF RouteRequest(video_url', video_id') = "invalid"
       THEN pc' = "rendered" /\ display' = render(None, MsgInvalidUrl, video_url', None)
       ELSE pc' = "list" /\ display' = NothingRendered
    /\ UNCHANGED <<tracks, available_languages>>

\* POST /summarize from the return of get_transcript_text to render_template
Render ==
    /\ pc = "fetched"
    /\ pc' = "rendered"
    /\ display' = LET h == HandleFetched(result[1], result[2]) IN
                  render(h.summary_text, h.error_msg, video_url, result[1])
    /\ UNCHANGED <<tracks, available_languages, raw_url, video_url, video_id,
                   transcript, lang_codes, result, calls, segments>>

(***************************************************************************)
(* The specification: any backend, then requests one after the other.      *)
(***************************************************************************)
Init ==
    /\ tracks \in SUBSET Tracks
    /\ available_languages \in SeqsUpTo(Langs, MaxLangs)
    /\ raw_url = <<>>
    /\ video_url = <<>>
    /\ video_id = None
    /\ pc = "idle"
    /\ transcript = NoTranscript
    /\ lang_codes = <<>>
    /\ result = <<None, NoError>>
    /\ display = NothingRendered
    /\ calls = <<>>
    /\ segments = <<>>

Next ==
    \/ index
    \/ \E u \in FormUrls : Submit(u)
    \/ ListTranscripts
    \/ FindManualEnglish
    \/ FindGeneratedEnglish
    \/ AvailableLanguages
    \/ TryLanguage
    \/ Fetch
    \/ Render

Spec == Init /\ [][Next]_vars

(***************************************************************************)
(* extract_video_id on its own: URLs made of up to MaxFrags fragments.     *)
(***************************************************************************)
FragId == <<"d", "Q", "w", "4", "w", "9", "W", "g", "X", "c", "Q">>
FragHost == <<"y", "o", "u", "t", "u", "b", "e", "-", "n", "o", "c", "o", "o", "k", "i", "e">>
FragYoutuBe == <<"y", "o", "u", "t", "u", ".", "b", "e", "/">>
FragEmbed == <<"e", "m", "b", "e", "d", "/">>
FragWatch == <<"w", "a", "t", "c", "h", "?">>
FragCom == <<".", "c", "o", "m">>
Frags == {<<"/">>, <<"v", "=">>, <<"v", "/">>, FragEmbed, FragYoutuBe, FragId,
          FragHost, FragWatch, FragCom, <<"a", "b", "c">>}

RECURSIVE Flatten(_)
Flatten(fs) == IF fs = <<>> THEN <<>> ELSE Head(fs) \o Flatten(Tail(fs))

GeneratedUrls == {Flatten(fs) : fs \in SeqsUpTo(Frags, MaxFrags)}

InitExtract ==
    /\ tracks = {}
    /\ available_languages = <<>>
    /\ raw_url \in GeneratedUrls
    /\ video_url = raw_url
    /\ video_id = None
    /\ pc = "extract"
    /\ transcript = NoTranscript
    /\ lang_codes = <<>>
    /\ result = <<None, NoError>>
    /\ display = NothingRendered
    /\ calls = <<>>
    /\ segments = <<>>

\* video_id = extract_video_id(video_url)
Extract ==
    /\ pc = "extract"
    /\ video_id' = extract_video_id(video_url)
    /\ pc' = "extracted"
    /\ UNCHANGED <<tracks, available_languages, raw_url, video_url, transcript,
                   lang_codes, result, display, calls, segments>>

SpecExtract == InitExtract /\ [][Extract]_vars

(***************************************************************************)
(* Vocabulary of the properties.                                           *)
(***************************************************************************)
EnManualTrack == [language_code |-> "en", is_generated |-> FALSE]
EnGeneratedTrack == [language_code |-> "en", is_generated |-> TRUE]
GeneratedTrack(code) == [language_code |-> code, is_generated |-> TRUE]

\* get_transcript_text was called and has returned
Returned == pc \in {"fetched", "rendered"} /\ calls # <<>>
InFetcher == pc \in {"list", "find_manual", "find_generated", "languages", "loop", "fetch"}
FetcherStep ==
    \/ ListTranscripts
    \/ FindManualEnglish
    \/ FindGeneratedEnglish
    \/ AvailableLanguages
    \/ TryLanguage
    \/ Fetch

\* a Python str: every element one character
Chars == IdChars \cup Whitespace \cup {".", "/", ":", "=", "?"}
IsStr(t) == \A k \in 1..Len(t) : t[k] \in Chars

\* where segment i starts in the text joined by single spaces (0-based offset)
RECURSIVE Offset(_, _)
Offset(segs, i) == IF i = 1 THEN 0 ELSE Offset(segs, i - 1) + Len(segs[i - 1]) + 1

\* t is the texts of segs, in order, with exactly one space between neighbours
IsSpaceJoin(t, segs) ==
    IF segs = <<>> THEN t = <<>>
    ELSE /\ IsStr(t)
         /\ Len(t) = Offset(segs, Len(segs)) + Len(segs[Len(segs)])
         /\ \A i \in 1..Len(segs) :
               SubSeq(t, Offset(segs, i) + 1, Offset(segs, i) + Len(segs[i])) = segs[i]
         /\ \A i \in 2..Len(segs) : t[Offset(segs, i)] = " "

LastCall == calls[Len(calls)]
FetchCallOf(t) == [op |-> "fetch", language_code |-> t.language_code,
                   is_generated |-> t.is_generated]
FaultMessages == {MsgDisabled, MsgNotFound, MsgUnexpected}

\* no English track of either kind
NoEnglishTrack == EnManualTrack \notin tracks /\ EnGeneratedTrack \notin tracks
\* the advertised language at position k has a generated track and none before it has
FirstGeneratedAt(k) ==
    /\ k \in 1..Len(available_languages)
    /\ GeneratedTrack(available_languages[k]) \in tracks
    /\ \A j \in 1..(k - 1) : GeneratedTrack(available_languages[j]) \notin tracks
\* nothing the fallback chain asks for exists
NothingToSelect ==
    /\ NoEnglishTrack
    /\ \A k \in 1..Len(available_languages) :
          GeneratedTrack(available_languages[k]) \notin tracks

(***************************************************************************)
(* C1: when the backend has both a manually created and a generated        *)
(* English track, the generated English track is never selected, asked for *)
(* or fetched; whenever a track is selected it is the manual one; and a    *)
(* successful return carries the text of the segments fetched from the     *)
(* manual track.                                                           *)
(***************************************************************************)
C1_ManualEnglishPreferred ==
    (EnManualTrack \in tracks /\ EnGeneratedTrack \in tracks) =>
        /\ transcript \in {NoTranscript, EnManualTrack}
        /\ \A k \in 1..Len(calls) :
              /\ calls[k].op # "find_generated_transcript"
              /\ calls[k].op = "fetch" => calls[k] = FetchCallOf(EnManualTrack)
        /\ pc = "fetch" => transcript = EnManualTrack
        /\ (Returned /\ result[2] = NoError) =>
              /\ transcript = EnManualTrack
              /\ LastCall = FetchCallOf(EnManualTrack)
              /\ IsSpaceJoin(result[1], segments)

C1_Witness ==
    /\ EnManualTrack \in tracks /\ EnGeneratedTrack \in tracks
    /\ pc = "fetched"
    /\ result[2] = NoError
    /\ transcript = EnManualTrack
    /\ segments = <<Never, gonna>>

(***************************************************************************)
(* C2: with no English track, a successful return selected the generated   *)
(* track of the first advertised language that has one, having tried the   *)
(* advertised languages in order up to that one and no further, and then   *)
(* fetched that track; and when some advertised language has a generated   *)
(* track the fetcher never reports that no transcript exists.              *)
(***************************************************************************)
C2_FirstAdvertisedGenerated ==
    (NoEnglishTrack /\ Returned) =>
        /\ result[2] = NoError =>
              \E k \in 1..Len(available_languages) :
                 /\ FirstGeneratedAt(k)
                 /\ transcript = GeneratedTrack(available_languages[k])
                 /\ Len(calls) = 4 + k + 1
                 /\ \A j \in 1..k :
                       calls[4 + j] = [op |-> "find_generated_transcript",
                                       language_code |-> available_languages[j],
                                       is_generated |-> TRUE]
                 /\ LastCall = FetchCallOf(GeneratedTrack(available_languages[k]))
                 /\ IsSpaceJoin(result[1], segments)
        /\ (\E k \in 1..Len(available_languages) : FirstGeneratedAt(k)) =>
              result[2] \in {NoError} \cup FaultMessages

C2_Witness ==
    /\ tracks = {GeneratedTrack("es")}
    /\ available_languages = <<"fr", "es">>
    /\ pc = "rendered"
    /\ transcript = GeneratedTrack("es")
    /\ display.error_message = NoError
    /\ display.summary = Never

(***************************************************************************)
(* C3: no exception leaves get_transcript_text; every state inside it has  *)
(* a next step and the number of backend calls is bounded by the advertised *)
(* languages, so it returns; what it returns has the text absent when the  *)
(* error is present and a string as text when the error is absent.         *)
(***************************************************************************)
C3_FetcherAlwaysReturnsPair ==
    /\ pc # "crashed"
    /\ InFetcher => (ENABLED FetcherStep) /\ Len(calls) <= 4 + Len(available_languages)
    /\ Returned =>
          /\ result[2] # NoError => result[1] = None
          /\ result[2] = NoError => result[1] # None /\ IsStr(result[1])

C3_Witness ==
    /\ pc = "fetched"
    /\ Len(calls) > 5
    /\ result = <<None, MsgUnexpected>>

(***************************************************************************)
(* C4: a rendered display model has exactly one of summary and error: with *)
(* no error the summary is a non-empty text, with an error the summary is  *)
(* absent.                                                                 *)
(***************************************************************************)
C4_ExactlyOneOfSummaryAndError ==
    pc = "rendered" =>
        /\ display.error_message = NoError => Truthy(display.summary)
        /\ display.error_message # NoError => display.summary = None

C4_Witness ==
    /\ pc = "rendered"
    /\ segments = << <<>>, <<>> >>
    /\ display.error_message = NoError
    /\ display.summary = <<" ">>

(***************************************************************************)
(* C5: get_transcript_text returns the no-transcripts-in-any-language      *)
(* error exactly when no backend call failed and the backend has no manual *)
(* English track, no generated English track and no generated track for    *)
(* any advertised language; it then returns no text and has listed the     *)
(* tracks, asked for both English tracks and the languages, and fetched    *)
(* nothing.                                                                *)
(***************************************************************************)
C5_NoTranscriptExactlyWhenChainExhausted ==
    Returned =>
        /\ result[2] = MsgNoTranscripts <=>
              (NothingToSelect /\ result[2] \notin FaultMessages)
        /\ result[2] = MsgNoTranscripts =>
              /\ result[1] = None
              /\ transcript = NoTranscript
              /\ Len(calls) = 4 + Len(available_languages)
              /\ \A k \in 1..Len(calls) : calls[k].op # "fetch"

C5_Witness ==
    /\ tracks = {[language_code |-> "fr", is_generated |-> FALSE]}
    /\ available_languages = <<"fr">>
    /\ pc = "fetched"
    /\ result = <<None, MsgNoTranscripts>>

(***************************************************************************)
(* C6: when the fetch of the selected track succeeded and the joined text  *)
(* of its segments is not empty, the page shows no error and the summary   *)
(* is the segment texts in order with one space between neighbours.        *)
(***************************************************************************)
C6_SummaryIsSpaceJoinedSegments ==
    (pc = "rendered" /\ calls # <<>> /\ result[2] = NoError) =>
        /\ LastCall = FetchCallOf(transcript)
        /\ (Len(segments) >= 2 \/ (Len(segments) = 1 /\ segments[1] # <<>>)) =>
              /\ display.error_message = NoError
              /\ IsSpaceJoin(display.summary, segments)

C6_Witness ==
    /\ pc = "rendered"
    /\ raw_url = UrlWatch
    /\ transcript = EnManualTrack
    /\ segments = <<Never, gonna, Never>>
    /\ display.error_message = NoError
    /\ display.summary = <<"N", "e", "v", "e", "r", " ", "g", "o", "n", "n", "a",
                           " ", "N", "e", "v", "e", "r">>

(***************************************************************************)
(* C7: a URL that is empty after trimming gets the enter-a-URL message, a  *)
(* non-empty URL with no extractable id gets the invalid-URL message, in   *)
(* both cases with no summary and no backend call; the backend is called   *)
(* only for a non-empty URL with an id.                                    *)
(***************************************************************************)
C7_BranchOrder ==
    /\ (calls # <<>> \/ InFetcher) => (video_url # <<>> /\ video_id # None)
    /\ video_url = strip(raw_url)
    /\ pc = "rendered" =>
          /\ video_url = <<>> =>
                /\ display.error_message = MsgEmptyUrl
                /\ display.summary = None
                /\ calls = <<>>
          /\ (video_url # <<>> /\ video_id = None) =>
                /\ display.error_message = MsgInvalidUrl
                /\ display.summary = None
                /\ calls = <<>>
          /\ raw_url \in {<<>>, <<" ", " ">>} => display.error_message = MsgEmptyUrl
          /\ raw_url = UrlNotAUrl => display.error_message = MsgInvalidUrl

C7_Witness ==
    /\ pc = "rendered"
    /\ raw_url = UrlNotAUrl
    /\ display.error_message = MsgInvalidUrl
    /\ display.summary = None
    /\ calls = <<>>

(***************************************************************************)
(* C8 as stated: when get_transcript_text returns empty text and no error, *)
(* the page shows "Could not generate summary from the transcript." and no *)
(* summary.                                                                *)
(***************************************************************************)
C8_EmptyTextReportsNoSummary ==
    (pc = "rendered" /\ calls # <<>> /\ result = << <<>>, NoError >>) =>
        /\ display.error_message = MsgNoSummary
        /\ display.summary = None

(***************************************************************************)
(* C8 amended: when get_transcript_text returns empty text and no error,   *)
(* the page shows "Could not retrieve transcript for the video (no text    *)
(* content)." and no summary.                                              *)
(***************************************************************************)
C8_EmptyTextReportsNoTextContent ==
    (pc = "rendered" /\ calls # <<>> /\ result = << <<>>, NoError >>) =>
        /\ display.error_message = MsgNoText
        /\ display.summary = None

C8_Witness ==
    /\ pc = "rendered"
    /\ segments = <<>>
    /\ result = << <<>>, NoError >>
    /\ display.error_message = MsgNoText

(***************************************************************************)
(* C9 as stated: extract_video_id returns every 11-character token of the  *)
(* class [0-9A-Za-z_-] that the URL holds right after 'v=', '/', 'embed/', *)
(* 'v/' or 'youtu.be/', also when an earlier '/' is followed by 11 class   *)
(* characters.                                                             *)
(***************************************************************************)
Prefixes == {<<"v", "=">>, <<"/">>, <<"e", "m", "b", "e", "d", "/">>, <<"v", "/">>,
             <<"y", "o", "u", "t", "u", ".", "b", "e", "/">>}
PrefixedTokens(u) ==
    {SubSeq(u, i + Len(p), i + Len(p) + IdLen - 1) :
        <<i, p>> \in {x \in (1..Len(u)) \X Prefixes :
                         LiteralAt(u, x[2], x[1]) /\ ClassRunAt(u, x[1] + Len(x[2]))}}

C9_ExtractReturnsPrefixedToken ==
    pc = "extracted" => \A tok \in PrefixedTokens(video_url) : video_id = tok

(***************************************************************************)
(* C10: the raw transcript handed to the template is always absent, and a  *)
(* rendered page with an error never holds non-empty fetched text.         *)
(***************************************************************************)
C10_RawTranscriptNeverShown ==
    /\ display.full_transcript = None
    /\ (pc = "rendered" /\ display.error_message # NoError) => ~Truthy(result[1])

C10_Witness ==
    /\ pc = "rendered"
    /\ Len(calls) = 6
    /\ result = <<None, MsgDisabled>>
    /\ display.error_message = MsgDisabled
    /\ display.full_transcript = None

====
